---- MODULE Spec2Model ----
(***************************************************************************)
(* A model of the pydantic code generator of "SQLAlchemy + Alembic":       *)
(*   olivier.py  build_model_definitions, detect_typeinfo,                 *)
(*               sqlalchemy_model_to_pydantic_model_definition,            *)
(*               create_partial                                            *)
(*   utils.py    ruff_format                                               *)
(*                                                                         *)
(* Python dicts and lists are mutable objects with an identity, so the     *)
(* descriptors create_partial works on live in a heap (id -> object) and   *)
(* refer to each other by id; deepcopy allocates fresh ids.  A key that a  *)
(* TypedDict marks NotRequired and that is missing is the string Absent;   *)
(* the boolean flags "list" and "optional" are only ever read through      *)
(* .get(), where missing and False are the same, and are kept as BOOLEAN.  *)
(***************************************************************************)
EXTENDS Integers, Sequences, FiniteSets, TLC

VARIABLES
    heap,       \* create_partial: id -> descriptor object (model, field, type, config)
    base,       \* create_partial: id of the base ModelDefinition
    mapArg,     \* create_partial: the map argument, field name -> str or FieldDefinition
    result,     \* create_partial: id of the returned ModelDefinition, NoRef if none
    err,        \* create_partial: the exception the last call raised, Absent if none
    lastOp,     \* the operation that produced the current state
    lastCall,   \* create_partial: the keyword arguments of the last call
    snap,       \* create_partial: the values of base and result before the last operation
    models,     \* build_model_definitions: the list of model descriptors passed
    out,        \* build_model_definitions: what the last call rendered
    firstText,  \* build_model_definitions: the text of the first call on this list
    firstImports, \* build_model_definitions: the import lines first rendered for these descriptors
    ann,        \* detect_typeinfo: the type object passed, NoAnn if none
    info,       \* detect_typeinfo: what the call returned or raised
    cls,        \* sqlalchemy_model_to_pydantic_model_definition: the mapped class and name passed
    conv,       \* sqlalchemy_model_to_pydantic_model_definition: what the call returned or raised
    ruff        \* ruff_format: the arguments, the position in the function, the subprocesses run

partialVars == <<heap, base, mapArg, result, err, lastCall, snap>>
buildVars == <<models, out, firstText, firstImports>>
detectVars == <<ann, info, cls, conv>>
vars == <<partialVars, buildVars, detectVars, ruff, lastOp>>

Absent == "<absent>"
NoRef == 0

Range(s) == {s[i] : i \in DOMAIN s}

RECURSIVE SetToSeq(_)
\* The ascending enumeration of a finite set of integers.
SetToSeq(S) ==
    IF S = {} THEN <<>>
    ELSE LET m == CHOOSE x \in S : \A y \in S : x <= y
         IN  <<m>> \o SetToSeq(S \ {m})

(***************************************************************************)
(* Bounds of the model.                                                    *)
(***************************************************************************)
MaxFields == 2      \* fields of a base model descriptor
MaxModels == 2      \* model descriptors in the list build_model_definitions renders
MaxColumns == 2     \* columns of a mapped class

FieldNames == {"a", "b", "c"}           \* field names of a base descriptor
RenameTargets == {"b", "z"}             \* the str values of the map argument

(***************************************************************************)
(* olivier.py:20-39  TypeInfo, FieldDefinition, ModelDefinition            *)
(***************************************************************************)
TypeInfo(name, import_from, alias, isList, optional) ==
    [kind |-> "TypeInfo", name |-> name, import_from |-> import_from,
     alias |-> alias, list |-> isList, optional |-> optional]

FieldDefinition(name, type, default) ==
    [kind |-> "FieldDefinition", name |-> name, type |-> type, default |-> default]

ModelDefinition(name, fields, config) ==
    [kind |-> "ModelDefinition", name |-> name, fields |-> fields, config |-> config]

ConfigDict(items) == [kind |-> "ConfigDict", items |-> items]

(***************************************************************************)
(* The heap: reachability, deep values, deepcopy.                          *)
(***************************************************************************)
Children(h, i) ==
    CASE h[i].kind = "ModelDefinition" -> Range(h[i].fields) \cup {h[i].config}
      [] h[i].kind = "FieldDefinition" -> {h[i].type}
      [] OTHER -> {}

RECURSIVE Reach(_, _)
\* The ids of the objects reachable from the ids S.
Reach(h, S) ==
    LET N == S \cup UNION {Children(h, i) : i \in S}
    IN  IF N = S THEN S ELSE Reach(h, N)

ReachOf(h, r) == IF r = NoRef THEN {} ELSE Reach(h, {r})

\* The value of a field object: what == compares in Python.
FieldVal(h, f) == [name |-> h[f].name, type |-> h[h[f].type], default |-> h[f].default]

\* The value of a model object.
ModelVal(h, m) ==
    [name |-> h[m].name,
     fields |-> [i \in DOMAIN h[m].fields |-> FieldVal(h, h[m].fields[i])],
     config |-> h[h[m].config].items]

\* The value held by a variable that refers to no descriptor.
NoVal == [name |-> Absent, fields |-> <<>>, config |-> <<>>]

ValOf(h, r) == IF r = NoRef THEN NoVal ELSE ModelVal(h, r)

\* The first n ids that h does not use, ascending.
FreshIds(h, n) ==
    LET top == IF DOMAIN h = {} THEN 0 ELSE CHOOSE x \in DOMAIN h : \A y \in DOMAIN h : y <= x
    IN  SubSeq(SetToSeq((1 .. (top + n)) \ DOMAIN h), 1, n)

\* A heap object with every reference it holds renamed by ren.
Rebind(o, ren) ==
    CASE o.kind = "ModelDefinition" ->
            [o EXCEPT !.fields = [i \in DOMAIN o.fields |-> ren[o.fields[i]]],
                      !.config = ren[o.config]]
      [] o.kind = "FieldDefinition" -> [o EXCEPT !.type = ren[o.type]]
      [] OTHER -> o

\* A copy that shares every field, type and config object with the original:
\* copy.copy in place of copy.deepcopy.
ShallowCopy(h, root) ==
    LET new == FreshIds(h, 1)[1]
    IN  [heap |-> [j \in DOMAIN h \cup {new} |-> IF j = new THEN h[root] ELSE h[j]],
         root |-> new]

\* olivier.py:245  model = deepcopy(base)
DeepCopy(h, root) ==
    LET old == SetToSeq(Reach(h, {root}))
        new == FreshIds(h, Len(old))
        ren == [i \in Range(old) |-> new[CHOOSE k \in DOMAIN old : old[k] = i]]
        back == [j \in Range(new) |-> old[CHOOSE k \in DOMAIN new : new[k] = j]]
    IN  [heap |-> [j \in DOMAIN h \cup Range(new) |->
                      IF j \in DOMAIN h THEN h[j] ELSE Rebind(h[back[j]], ren)],
         root |-> ren[root]]

(***************************************************************************)
(* Arguments of create_partial.  A set argument is None or a set; a map    *)
(* value is a str or a FieldDefinition (a dict on the heap).               *)
(***************************************************************************)
NoneSet == [none |-> TRUE, elems |-> {}]
SomeSet(S) == [none |-> FALSE, elems |-> S]

\* Python truth of "set | None": None and the empty set are false.
Truthy(s) == ~s.none /\ s.elems # {}

StrVal(s) == [type |-> "str", str |-> s, ref |-> NoRef]
DictVal(r) == [type |-> "dict", str |-> Absent, ref |-> r]

\* type(val): a TypedDict is a plain dict at run time, so the type of a
\* FieldDefinition value is dict, never the class FieldDefinition.
PyType(val) == val.type

MapRefs(map) == {map[k].ref : k \in DOMAIN map} \ {NoRef}

(***************************************************************************)
(* olivier.py:235-273  create_partial                                      *)
(***************************************************************************)
RECURSIVE MapLoop(_, _, _, _)
\* olivier.py:250-256  the loop over enumerate(model["fields"]), from idx on.
MapLoop(h, m, map, idx) ==
    IF idx > Len(h[m].fields) THEN h
    ELSE LET f == h[m].fields[idx]
         IN  IF h[f].name \in DOMAIN map
             THEN LET val == map[h[f].name]
                      h1 == IF PyType(val) = "str"
                            THEN [h EXCEPT ![f].name = val.str]
                            ELSE h
                      h2 == IF PyType(val) = "FieldDefinition"
                            THEN [h1 EXCEPT ![m].fields[idx] = val.ref]
                            ELSE h1
                  IN  MapLoop(h2, m, map, idx + 1)
             ELSE MapLoop(h, m, map, idx + 1)

\* olivier.py:261-262
IncludeFilter(h, m, include) ==
    IF Truthy(include)
    THEN [h EXCEPT ![m].fields = SelectSeq(h[m].fields, LAMBDA f : h[f].name \in include.elems)]
    ELSE h

\* The exclude set applied the wrong way round.
ExcludeFilterInverted(h, m, exclude) ==
    IF Truthy(exclude)
    THEN [h EXCEPT ![m].fields = SelectSeq(h[m].fields, LAMBDA f : h[f].name \in exclude.elems)]
    ELSE h

\* olivier.py:264-265
ExcludeFilter(h, m, exclude) ==
    IF Truthy(exclude)
    THEN [h EXCEPT ![m].fields = SelectSeq(h[m].fields, LAMBDA f : h[f].name \notin exclude.elems)]
    ELSE h

RECURSIVE OptionalLoop(_, _, _, _, _)
\* olivier.py:267-271  the loop over model["fields"], from idx on.
OptionalLoop(h, m, required, optional, idx) ==
    IF idx > Len(h[m].fields) THEN h
    ELSE LET f == h[m].fields[idx]
             t == h[f].type
             h1 == IF Truthy(required) /\ h[f].name \in required.elems
                   THEN [h EXCEPT ![t].optional = FALSE] ELSE h
             h2 == IF Truthy(optional) /\ h[f].name \in optional.elems
                   THEN [h1 EXCEPT ![t].optional = TRUE] ELSE h1
         IN  OptionalLoop(h2, m, required, optional, idx + 1)

\* The whole call: the heap it leaves, the id returned and the exception raised.
create_partial(h, b, name, map, include, exclude, required, optional) ==
    LET cp == DeepCopy(h, b)
        m  == cp.root
        h1 == IF name # Absent /\ name # "" THEN [cp.heap EXCEPT ![m].name = name] ELSE cp.heap
        h2 == MapLoop(h1, m, map, 1)
        h3 == IncludeFilter(h2, m, include)
        h4 == ExcludeFilter(h3, m, exclude)
        h5 == OptionalLoop(h4, m, required, optional, 1)
    IN  IF Truthy(include) /\ Truthy(exclude)
        THEN [heap |-> h2, ret |-> NoRef, err |-> "ValueError"]
        ELSE [heap |-> h5, ret |-> m, err |-> Absent]

\* What the garbage collector keeps: the objects the caller can still reach.
Collect(h, roots) == [i \in Reach(h, roots \ {NoRef}) |-> h[i]]

\* The variables of the other operations while create_partial is exercised.
BuildIdle ==
    /\ models = <<>>
    /\ out = [import_lines |-> <<>>, blocks |-> <<>>, text |-> Absent, seed |-> <<>>]
    /\ firstText = Absent
    /\ firstImports = <<Absent>>

\* A type object: a class, type(None) or a generic alias; kind is what
\* get_origin tells apart and args is get_args.
Ann(kind, name, module, annotated, args) ==
    [kind |-> kind, name |-> name, module |-> module, annotations |-> annotated, args |-> args]

NoAnn == Ann("<none>", Absent, Absent, FALSE, <<>>)

\* What a call returns or raises: err is the exception, Absent if it returned.
Returned(v) == [err |-> Absent, value |-> v]
Raised(e) == [err |-> e, value |-> Absent]

NoClass ==
    [naming |-> [name |-> Absent, attr |-> "<none>", value |-> Absent],
     columns |-> <<>>, relationships |-> <<>>]

DetectIdle ==
    /\ ann = NoAnn
    /\ info = Raised("<not called>")
    /\ cls = NoClass
    /\ conv = Raised("<not called>")

RuffIdle == ruff = [pc |-> "idle"]

(***************************************************************************)
(* The callers of create_partial: a base descriptor and a map argument     *)
(* are built, create_partial derives a descriptor from them, and the       *)
(* caller goes on to mutate either descriptor or drops the derived one.    *)
(***************************************************************************)
\* Sequences of distinct field names, 1 .. MaxFields long.
NameSeqs ==
    UNION {{s \in [1 .. n -> FieldNames] : \A i, j \in 1 .. n : i # j => s[i] # s[j]} :
           n \in 1 .. MaxFields}

\* A base descriptor as sqlalchemy_model_to_pydantic_model_definition builds
\* it (olivier.py:228-232): model 1, config 2, field i at 2i+1, its type at 2i+2.
BaseHeap(names, opts) ==
    [i \in 1 .. (2 + 2 * Len(names)) |->
        IF i = 1 THEN ModelDefinition("Base", [k \in 1 .. Len(names) |-> 2 * k + 1], 2)
        ELSE IF i = 2 THEN ConfigDict(<<"extra", "forbid">>)
        ELSE IF i % 2 = 1 THEN FieldDefinition(names[(i - 1) \div 2], i + 1, Absent)
        ELSE TypeInfo("int", Absent, Absent, FALSE, opts[(i - 2) \div 2])]

\* The FieldDefinition a map entry may carry: its field object and its type object.
ReplacementField(t) == FieldDefinition("r", t, Absent)
ReplacementType == TypeInfo("str", Absent, Absent, FALSE, FALSE)

\* The map arguments: no entry, or one entry whose value is a str or a FieldDefinition.
MapShapes ==
    {<<>>} \cup {<<k, v>> : k \in FieldNames, v \in RenameTargets \cup {"<FieldDefinition>"}}

SetArgs == {NoneSet, SomeSet({}), SomeSet({"a"}), SomeSet({"b", "z"})}
RequiredArgs == {NoneSet, SomeSet({"a", "b"})}
OptionalArgs == {NoneSet, SomeSet({"b", "z"})}
NameArgs == {Absent, "Derived"}

NoCall == [name |-> Absent, include |-> NoneSet, exclude |-> NoneSet,
           required |-> NoneSet, optional |-> NoneSet]

InitPartial ==
    \E names \in NameSeqs, shape \in MapShapes, opt \in BOOLEAN :
        LET h0 == BaseHeap(names, [i \in 1 .. Len(names) |-> opt])
            n  == Len(h0)
            isFd == shape # <<>> /\ shape[2] = "<FieldDefinition>"
        IN  /\ heap = IF isFd
                      THEN [i \in 1 .. (n + 2) |->
                              IF i <= n THEN h0[i]
                              ELSE IF i = n + 1 THEN ReplacementField(n + 2)
                              ELSE ReplacementType]
                      ELSE h0
            /\ base = 1
            /\ mapArg = IF shape = <<>> THEN <<>>
                        ELSE [k \in {shape[1]} |->
                                IF isFd THEN DictVal(n + 1) ELSE StrVal(shape[2])]
            /\ result = NoRef
            /\ err = Absent
            /\ lastOp = "init"
            /\ lastCall = NoCall
            /\ snap = [base |-> ModelVal(h0, 1), result |-> NoVal]
            /\ BuildIdle /\ DetectIdle /\ RuffIdle

Snapshot == [base |-> ValOf(heap, base), result |-> ValOf(heap, result)]

\* model = create_partial(base, name, map=..., include=..., exclude=..., ...)
CallCreatePartial ==
    /\ lastOp \in {"init", "drop"}
    /\ \E name \in NameArgs, include \in SetArgs, exclude \in SetArgs,
          required \in RequiredArgs, optional \in OptionalArgs :
         LET r == create_partial(heap, base, name, mapArg, include, exclude, required, optional)
         IN  /\ heap' = Collect(r.heap, {base, r.ret} \cup MapRefs(mapArg))
             /\ result' = r.ret
             /\ err' = r.err
             /\ lastCall' = [name |-> name, include |-> include, exclude |-> exclude,
                             required |-> required, optional |-> optional]
    /\ lastOp' = "create_partial"
    /\ snap' = Snapshot
    /\ UNCHANGED <<base, mapArg, buildVars, detectVars, ruff>>

\* The caller mutates a descriptor in place: descriptor["fields"][i]["name"] = n.
Rename(owner, op) ==
    /\ owner # NoRef
    /\ \E i \in DOMAIN heap[owner].fields :
         heap' = [heap EXCEPT ![heap[owner].fields[i]].name = "mutated"]
    /\ lastOp' = op
    /\ snap' = Snapshot
    /\ UNCHANGED <<base, mapArg, result, err, lastCall, buildVars, detectVars, ruff>>

\* The caller mutates a descriptor in place: the optional flag of a field's type.
Toggle(owner, op) ==
    /\ owner # NoRef
    /\ \E i \in DOMAIN heap[owner].fields :
         LET t == heap[heap[owner].fields[i]].type
         IN  heap' = [heap EXCEPT ![t].optional = ~heap[t].optional]
    /\ lastOp' = op
    /\ snap' = Snapshot
    /\ UNCHANGED <<base, mapArg, result, err, lastCall, buildVars, detectVars, ruff>>

\* Right after a call that returned, the caller mutates base ...
MutateBase ==
    /\ lastOp = "create_partial" /\ result # NoRef
    /\ Rename(base, "mutate_base") \/ Toggle(base, "mutate_base")

\* ... or the descriptor the call returned.
MutateResult ==
    /\ lastOp = "create_partial"
    /\ Rename(result, "mutate_result") \/ Toggle(result, "mutate_result")

\* The caller lets go of the derived descriptor, or of the exception, and
\* is where it was before the call.
Drop ==
    /\ lastOp = "create_partial"
    /\ heap' = Collect(heap, {base} \cup MapRefs(mapArg))
    /\ result' = NoRef
    /\ err' = Absent
    /\ lastOp' = "drop"
    /\ lastCall' = NoCall
    /\ snap' = [base |-> ValOf(heap, base), result |-> NoVal]
    /\ UNCHANGED <<base, mapArg, buildVars, detectVars, ruff>>

NextPartial == CallCreatePartial \/ MutateBase \/ MutateResult \/ Drop

SpecPartial == InitPartial /\ [][NextPartial]_vars

(***************************************************************************)
(* Claims about create_partial.                                            *)
(***************************************************************************)
\* The current state is the one a call of create_partial left.
AfterCall == lastOp = "create_partial"

\* The name the map argument gives a field called n: the str it maps n to, if any.
Renamed(n) ==
    IF n \in DOMAIN mapArg /\ mapArg[n].type = "str" THEN mapArg[n].str ELSE n

\* C3: after create_partial(base, exclude=E) with no include set, no field
\* of the returned descriptor has a name in E, and the returned fields are
\* exactly the fields of base whose name after renaming by map is not in E, in
\* base's order, each with its default and its type name, whatever map,
\* required and optional were given.
C3_ExcludeDropsExactlyTheExcluded ==
    (AfterCall /\ lastCall.include.none /\ ~lastCall.exclude.none) =>
        LET E == lastCall.exclude.elems
            before == snap.base.fields
            kept == SelectSeq([i \in DOMAIN before |-> i],
                              LAMBDA i : Renamed(before[i].name) \notin E)
            after == ValOf(heap, result).fields
        IN  /\ err = Absent /\ result # NoRef
            /\ \A i \in DOMAIN after : after[i].name \notin E
            /\ Len(after) = Len(kept)
            /\ \A i \in DOMAIN kept :
                 /\ after[i].name = Renamed(before[kept[i]].name)
                 /\ after[i].default = before[kept[i]].default
                 /\ after[i].type.name = before[kept[i]].type.name

\* C3 witness: an exclude set removed a field that map had renamed into the
\* set and kept another field.
C3_Witness ==
    /\ AfterCall /\ lastCall.include.none /\ Truthy(lastCall.exclude)
    /\ result # NoRef
    /\ Len(heap[result].fields) >= 1
    /\ \E i \in DOMAIN snap.base.fields :
         /\ snap.base.fields[i].name \notin lastCall.exclude.elems
         /\ Renamed(snap.base.fields[i].name) \in lastCall.exclude.elems

\* The objects the map argument holds: its FieldDefinition values and their types.
MapObjects == Reach(heap, MapRefs(mapArg))

\* C4: create_partial leaves the value of base as it was, also when it
\* raises; the descriptor it returns shares no object with base or with the
\* map argument; so a mutation of base leaves the returned descriptor as it
\* was and a mutation of the returned descriptor leaves base as it was.
C4_DeepCopyIsolation ==
    /\ ReachOf(heap, result) \cap (ReachOf(heap, base) \cup MapObjects) = {}
    /\ AfterCall => ValOf(heap, base) = snap.base
    /\ lastOp = "mutate_base" => ValOf(heap, result) = snap.result
    /\ lastOp = "mutate_result" => ValOf(heap, base) = snap.base

\* C4 witness: base was mutated after a call that renamed a field of base and
\* was given a FieldDefinition in map.
C4_Witness ==
    /\ lastOp = "mutate_base"
    /\ ValOf(heap, base) # snap.base
    /\ lastCall.name # Absent
    /\ \E k \in DOMAIN mapArg : mapArg[k].type = "dict"
    /\ \E i \in DOMAIN snap.result.fields : snap.result.fields[i].type.optional

\* C5: with no include, exclude, required or optional argument, the derived
\* descriptor has the fields of base at their positions, a field whose name
\* map associates with a str under that new name with type and default
\* unchanged, and a field whose name map associates with a FieldDefinition
\* replaced by that FieldDefinition.
C5_MapRenamesAndReplaces ==
    (/\ AfterCall /\ result # NoRef
     /\ lastCall.include.none /\ lastCall.exclude.none
     /\ lastCall.required.none /\ lastCall.optional.none) =>
        LET before == snap.base.fields
            after == ValOf(heap, result).fields
        IN  /\ Len(after) = Len(before)
            /\ \A i \in DOMAIN before :
                 LET n == before[i].name
                 IN  IF n \notin DOMAIN mapArg THEN after[i] = before[i]
                     ELSE IF mapArg[n].type = "str"
                     THEN after[i] = [before[i] EXCEPT !.name = mapArg[n].str]
                     ELSE after[i] = FieldVal(heap, mapArg[n].ref)

\* C6: a call given both an include set and an exclude set raises ValueError,
\* returns no descriptor and leaves base as it was.
C6_IncludeWithExcludeRaises ==
    (AfterCall /\ ~lastCall.include.none /\ ~lastCall.exclude.none) =>
        /\ err = "ValueError"
        /\ result = NoRef
        /\ ValOf(heap, base) = snap.base

(***************************************************************************)
(* olivier.py:42-136  build_model_definitions                              *)
(*                                                                         *)
(* The descriptors are read only, so they are plain values here.  A line   *)
(* of a class is kept as the pieces its f-string joins; the returned text  *)
(* is the string itself.                                                   *)
(***************************************************************************)
\* m.get("base") of a descriptor without the key.
NoBase == [kind |-> "None"]

Field(name, type, default) == [name |-> name, type |-> type, default |-> default]

Model(name, description, fields, baseType, config) ==
    [name |-> name, description |-> description, fields |-> fields,
     base |-> baseType, config |-> config]

\* The strings the model sorts, in Python's str order (code point by code point).
StrOrder == <<"", "BaseModel", "ConfigDict", "U", "UUID", "datetime", "pydantic", "uuid">>

StrRank(s) == CHOOSE i \in DOMAIN StrOrder : StrOrder[i] = s

\* a < b on str.
StrLess(a, b) == StrRank(a) < StrRank(b)

RECURSIVE Join(_, _)
\* sep.join(parts)
Join(parts, sep) ==
    IF parts = <<>> THEN ""
    ELSE IF Len(parts) = 1 THEN parts[1]
    ELSE parts[1] \o sep \o Join(Tail(parts), sep)

\* olivier.py:43-49
type_ref(t) ==
    LET ref  == IF t.alias # Absent THEN t.alias ELSE t.name
        ref1 == IF t.list THEN "list[" \o ref \o "]" ELSE ref
    IN  IF t.optional THEN ref1 \o " | None" ELSE ref1

\* The tuple (name, alias) a type contributes to the imports of its module.
ImportItem(t) == [name |-> t.name, alias |-> t.alias]

\* The truth of t.get("import_from").
HasModule(t) == t.import_from # Absent /\ t.import_from # ""

\* A list in place of the set: the same item is kept once per reference.
AddImportNoDedup(imports, module, item) ==
    IF \E i \in DOMAIN imports : imports[i].module = module
    THEN [i \in DOMAIN imports |->
            IF imports[i].module = module
            THEN [imports[i] EXCEPT !.elems = Append(@, item)]
            ELSE imports[i]]
    ELSE Append(imports, [module |-> module, elems |-> <<item>>])

\* olivier.py:58, 64, 83, 105  imports[module].add(item): imports is a dict
\* (modules in insertion order) of sets (an item is held once).
AddImport(imports, module, item) ==
    IF \E i \in DOMAIN imports : imports[i].module = module
    THEN [i \in DOMAIN imports |->
            IF imports[i].module = module /\ item \notin Range(imports[i].elems)
            THEN [imports[i] EXCEPT !.elems = Append(@, item)]
            ELSE imports[i]]
    ELSE Append(imports, [module |-> module, elems |-> <<item>>])

RECURSIVE FieldImports(_, _, _)
\* olivier.py:61-64
FieldImports(imports, fields, i) ==
    IF i > Len(fields) THEN imports
    ELSE LET t == fields[i].type
         IN  FieldImports(IF HasModule(t) THEN AddImport(imports, t.import_from, ImportItem(t))
                          ELSE imports,
                          fields, i + 1)

RECURSIVE CollectImports(_, _, _)
\* olivier.py:54-64
CollectImports(imports, ms, i) ==
    IF i > Len(ms) THEN imports
    ELSE LET b  == ms[i].base
             i1 == IF b # NoBase /\ HasModule(b)
                   THEN AddImport(imports, b.import_from, ImportItem(b))
                   ELSE imports
         IN  CollectImports(FieldImports(i1, ms[i].fields, 1), ms, i + 1)

RECURSIVE ClassImports(_, _, _)
\* olivier.py:82-83, 100-105  the imports the rendering of the classes adds.
ClassImports(imports, ms, i) ==
    IF i > Len(ms) THEN imports
    ELSE LET i1 == IF ms[i].base = NoBase
                   THEN AddImport(imports, "pydantic", [name |-> "BaseModel", alias |-> Absent])
                   ELSE imports
             i2 == IF Len(ms[i].config) > 0
                   THEN AddImport(i1, "pydantic", [name |-> "ConfigDict", alias |-> Absent])
                   ELSE i1
         IN  ClassImports(i2, ms, i + 1)

RECURSIVE SetIter(_, _)
\* The order in which iteration yields the elements of a set: the order the
\* hash seed of the process puts them in.
SetIter(elems, seed) ==
    IF seed = <<>> THEN <<>>
    ELSE SelectSeq(elems, LAMBDA x : x = Head(seed)) \o SetIter(elems, Tail(seed))

\* olivier.py:119  key=lambda x: (x[0], x[1] or ""), compared as tuples.
ItemLess(x, y) ==
    LET kx == IF x.alias = Absent THEN "" ELSE x.alias
        ky == IF y.alias = Absent THEN "" ELSE y.alias
    IN  StrLess(x.name, y.name) \/ (x.name = y.name /\ StrLess(kx, ky))

\* The items in the order iteration yields them: no sort.
UnsortedItems(seq) == seq

RECURSIVE SortedItems(_)
\* olivier.py:119  sorted(imports[module], key=...): a stable sort.
SortedItems(seq) ==
    IF seq = <<>> THEN <<>>
    ELSE LET rest == SortedItems(SubSeq(seq, 1, Len(seq) - 1))
             x == seq[Len(seq)]
             k == Cardinality({i \in DOMAIN rest : ~ItemLess(x, rest[i])})
         IN  SubSeq(rest, 1, k) \o <<x>> \o SubSeq(rest, k + 1, Len(rest))

RECURSIVE SortedStrings(_)
\* olivier.py:118  sorted(imports.keys())
SortedStrings(seq) ==
    IF seq = <<>> THEN <<>>
    ELSE LET rest == SortedStrings(SubSeq(seq, 1, Len(seq) - 1))
             x == seq[Len(seq)]
             k == Cardinality({i \in DOMAIN rest : ~StrLess(x, rest[i])})
         IN  SubSeq(rest, 1, k) \o <<x>> \o SubSeq(rest, k + 1, Len(rest))

\* olivier.py:122
ImportPart(item) ==
    IF item.alias # Absent /\ item.alias # ""
    THEN item.name \o " as " \o item.alias
    ELSE item.name

\* olivier.py:117-123  the import lines: for each line its module, its parts
\* and its text.  (Lines 67-73 render the same from the imports collected so
\* far; line 117 discards that list.)
RenderImports(imports, seed) ==
    LET modules == SortedStrings([i \in DOMAIN imports |-> imports[i].module])
        elemsOf(mod) == imports[CHOOSE i \in DOMAIN imports : imports[i].module = mod].elems
    IN  [k \in DOMAIN modules |->
            LET items == SortedItems(SetIter(elemsOf(modules[k]), seed))
                parts == [j \in DOMAIN items |-> ImportPart(items[j])]
            IN  [module |-> modules[k], items |-> items, parts |-> parts,
                 line |-> "from " \o modules[k] \o " import " \o Join(parts, ", ")]]

\* olivier.py:78-79
BaseName(m) == IF m.base # NoBase THEN type_ref(m.base) ELSE "BaseModel"

\* olivier.py:96-99  one key=value of the configuration
ConfigItem(kv) ==
    IF kv.isStr THEN kv.key \o "='" \o kv.value \o "'" ELSE kv.key \o "=" \o kv.value

\* The configuration line written for every class, also for an empty configuration.
ConfigLinesAlways(m) ==
    << <<"    model_config = ConfigDict(",
         Join([i \in DOMAIN m.config |-> ConfigItem(m.config[i])], ", "), ")">>,
       <<"">> >>

\* olivier.py:94-103
ConfigLines(m) ==
    IF Len(m.config) > 0
    THEN << <<"    model_config = ConfigDict(",
              Join([i \in DOMAIN m.config |-> ConfigItem(m.config[i])], ", "), ")">>,
            <<"">> >>
    ELSE <<>>

\* olivier.py:88-91
DescriptionLines(m) ==
    IF m.description # Absent /\ m.description # ""
    THEN << <<"    \"\"\"", m.description, "\"\"\"">>, <<"">> >>
    ELSE <<>>

\* olivier.py:109-112
FieldLine(f) ==
    <<"    ", f.name, ": ", type_ref(f.type)>>
        \o (IF f.default # Absent /\ f.default # "" THEN <<" = ", f.default>> ELSE <<>>)

\* olivier.py:85-114  the lines of one class
ClassBlock(m) ==
    << <<"class ", m.name, "(", BaseName(m), "):">> >>
        \o DescriptionLines(m)
        \o ConfigLines(m)
        \o [i \in DOMAIN m.fields |-> FieldLine(m.fields[i])]
        \o << <<"">> >>

RECURSIVE Flatten(_)
Flatten(seqs) == IF seqs = <<>> THEN <<>> ELSE Head(seqs) \o Flatten(Tail(seqs))

RECURSIVE StripBlank(_)
\* olivier.py:133-134
StripBlank(lines) ==
    IF lines # <<>> /\ lines[Len(lines)] = ""
    THEN StripBlank(SubSeq(lines, 1, Len(lines) - 1))
    ELSE lines

\* The whole call under the hash seed of the running process.
build_model_definitions(ms, seed) ==
    LET imports == ClassImports(CollectImports(<<>>, ms, 1), ms, 1)
        import_lines == RenderImports(imports, seed)
        blocks == [i \in DOMAIN ms |-> ClassBlock(ms[i])]
        class_lines == [i \in DOMAIN Flatten(blocks) |-> Join(Flatten(blocks)[i], "")]
        lines == [i \in DOMAIN import_lines |-> import_lines[i].line]
                    \o (IF import_lines # <<>> THEN <<"">> ELSE <<>>)
                    \o class_lines
    IN  [import_lines |-> import_lines, blocks |-> blocks,
         text |-> Join(StripBlank(lines), "\n"), seed |-> seed]

(***************************************************************************)
(* The callers of build_model_definitions: a list of descriptors is        *)
(* rendered, rendered again (by this process or by another one, whose hash *)
(* seed differs), or put in another order and rendered.                    *)
(***************************************************************************)
PartialIdle ==
    /\ heap = <<>>
    /\ base = NoRef
    /\ mapArg = <<>>
    /\ result = NoRef
    /\ err = Absent
    /\ lastCall = NoCall
    /\ snap = [base |-> NoVal, result |-> NoVal]

UuidType == TypeInfo("UUID", "uuid", Absent, FALSE, FALSE)
UuidAsU == TypeInfo("UUID", "uuid", "U", FALSE, FALSE)
DatetimeList == TypeInfo("datetime", "datetime", Absent, TRUE, TRUE)
ConfigDictType == TypeInfo("ConfigDict", "pydantic", Absent, FALSE, FALSE)
BaseModelType == TypeInfo("BaseModel", "pydantic", Absent, FALSE, FALSE)

\* The field lists of the descriptors rendered.
FieldLists ==
    {<<>>,
     <<Field("c", ConfigDictType, Absent)>>,
     <<Field("x", UuidType, Absent), Field("y", UuidAsU, Absent)>>,
     <<Field("y", UuidAsU, Absent), Field("x", UuidType, Absent)>>,
     <<Field("x", DatetimeList, "None"), Field("y", UuidType, Absent)>>,
     <<Field("y", UuidType, Absent), Field("x", DatetimeList, "None")>>}

Configs ==
    {<<>>,
     <<[key |-> "extra", value |-> "forbid", isStr |-> TRUE],
       [key |-> "strict", value |-> "True", isStr |-> FALSE]>>}

Bases == {NoBase, BaseModelType}

ModelNames == <<"M1", "M2", "M3", "M4">>

\* The iteration orders of sets of import items that the hash seeds give.
ItemUniverse ==
    <<[name |-> "ConfigDict", alias |-> Absent], [name |-> "UUID", alias |-> "U"],
      [name |-> "BaseModel", alias |-> Absent], [name |-> "UUID", alias |-> Absent],
      [name |-> "datetime", alias |-> Absent]>>

Reverse(seq) == [i \in DOMAIN seq |-> seq[Len(seq) + 1 - i]]

HashSeeds == {ItemUniverse, Reverse(ItemUniverse), Tail(ItemUniverse) \o <<Head(ItemUniverse)>>}

NoOut == [import_lines |-> <<>>, blocks |-> <<>>, text |-> Absent, seed |-> <<>>]

InitBuild ==
    /\ \E n \in 1 .. MaxModels :
         \E fs \in [1 .. n -> FieldLists], bs \in [1 .. n -> Bases], cs \in [1 .. n -> Configs] :
            models = [i \in 1 .. n |->
                        Model(ModelNames[i], IF i = 1 THEN "doc" ELSE Absent, fs[i], bs[i], cs[i])]
    /\ out = NoOut
    /\ firstText = Absent
    /\ firstImports = <<Absent>>
    /\ lastOp = "init"
    /\ PartialIdle /\ DetectIdle /\ RuffIdle

ImportText(o) == [i \in DOMAIN o.import_lines |-> o.import_lines[i].line]

\* text = build_model_definitions(models)
CallBuild ==
    /\ \E seed \in HashSeeds :
         LET o == build_model_definitions(models, seed)
         IN  /\ out' = o
             /\ firstText' = IF firstText = Absent THEN o.text ELSE firstText
             /\ firstImports' = IF firstImports = <<Absent>> THEN ImportText(o) ELSE firstImports
    /\ lastOp' = IF firstText = Absent THEN "build" ELSE "rebuild"
    /\ UNCHANGED <<models, partialVars, detectVars, ruff>>

\* The caller passes the same descriptors the other way round: the models
\* and the fields of each model in reverse order.
Reorder ==
    /\ lastOp \in {"build", "rebuild"}
    /\ models' = Reverse([i \in DOMAIN models |->
                             [models[i] EXCEPT !.fields = Reverse(models[i].fields)]])
    /\ models' # models
    /\ out' = NoOut
    /\ firstText' = Absent
    /\ lastOp' = "reorder"
    /\ UNCHANGED <<firstImports, partialVars, detectVars, ruff>>

NextBuild == CallBuild \/ Reorder

SpecBuild == InitBuild /\ [][NextBuild]_vars

(***************************************************************************)
(* Claims about build_model_definitions.                                   *)
(***************************************************************************)
Rendered == out.text # Absent

\* Every reference the descriptors make to a symbol of a module: the bases
\* and the field types that carry import_from.
References ==
    Flatten([i \in DOMAIN models |->
                (IF models[i].base # NoBase /\ HasModule(models[i].base)
                 THEN <<[module |-> models[i].base.import_from, item |-> ImportItem(models[i].base)]>>
                 ELSE <<>>)
                \o SelectSeq([j \in DOMAIN models[i].fields |->
                                 [module |-> models[i].fields[j].type.import_from,
                                  item |-> ImportItem(models[i].fields[j].type)]],
                             LAMBDA r : r.module # Absent /\ r.module # "")])

SomeConfig == \E i \in DOMAIN models : models[i].config # <<>>
SomeDefaultBase == \E i \in DOMAIN models : models[i].base = NoBase

\* The modules the output has to import from.
NeededModules ==
    {r.module : r \in Range(References)}
        \cup (IF SomeConfig \/ SomeDefaultBase THEN {"pydantic"} ELSE {})

\* C1: every call on the same list returns the same text; the import lines
\* are the same for the same descriptors in another order; there is one
\* import line per module that is needed, the lines ascend by module name
\* and the symbols of a line ascend by symbol name.
C1_RenderingDeterministicAndSorted ==
    Rendered =>
        /\ out.text = firstText
        /\ ImportText(out) = firstImports
        /\ {out.import_lines[k].module : k \in DOMAIN out.import_lines} = NeededModules
        /\ \A k, l \in DOMAIN out.import_lines :
             k < l => StrLess(out.import_lines[k].module, out.import_lines[l].module)
        /\ \A k \in DOMAIN out.import_lines :
             \A i, j \in DOMAIN out.import_lines[k].items :
                i < j => ~StrLess(out.import_lines[k].items[j].name,
                                  out.import_lines[k].items[i].name)

\* C1 witness: a repeated call, after a reordering, under a hash seed that
\* iterates a set out of order, with pydantic (added while the classes are
\* rendered) sorted before a module the fields referenced first.
C1_Witness ==
    /\ lastOp = "rebuild"
    /\ firstImports # ImportText(NoOut) /\ Len(firstImports) >= 2
    /\ models[1].name # ModelNames[1]
    /\ \E k \in DOMAIN out.import_lines :
         /\ Len(out.import_lines[k].items) >= 2
         /\ SetIter(out.import_lines[k].items, out.seed) # out.import_lines[k].items
    /\ References # <<>> /\ References[1].module = "uuid"
    /\ out.import_lines[1].module = "pydantic"

\* C2: no import line lists the same item twice, however often the bases and
\* fields reference it; every referenced item is listed; an item with an
\* alias is written "name as alias" and one without is written "name".
C2_ImportsDeduplicated ==
    Rendered =>
        /\ \A k \in DOMAIN out.import_lines :
             LET ln == out.import_lines[k]
             IN  /\ \A i, j \in DOMAIN ln.parts : i # j => ln.parts[i] # ln.parts[j]
                 /\ \A i \in DOMAIN ln.parts :
                      ln.parts[i] = IF ln.items[i].alias # Absent
                                    THEN ln.items[i].name \o " as " \o ln.items[i].alias
                                    ELSE ln.items[i].name
        /\ \A r \in Range(References) :
             \E k \in DOMAIN out.import_lines :
                /\ out.import_lines[k].module = r.module
                /\ r.item \in Range(out.import_lines[k].items)

\* C2 witness: a symbol referenced more than once, next to an aliased import
\* of the same symbol.
C2_Witness ==
    /\ Rendered
    /\ \E i, j \in DOMAIN References :
         i # j /\ References[i] = References[j] /\ References[i].item.alias = Absent
               /\ References[i].item.name = "UUID"
    /\ \E i \in DOMAIN References : References[i].item.alias = "U"

\* The output imports the symbol from pydantic under its own name.
ImportsFromPydantic(symbol) ==
    \E k \in DOMAIN out.import_lines :
        /\ out.import_lines[k].module = "pydantic"
        /\ symbol \in Range(out.import_lines[k].parts)

\* A descriptor with no base and no configuration renders "class
\* <name>(BaseModel):" without a model_config line, and BaseModel is imported.
DefaultBaseRendered ==
    \A i \in DOMAIN models :
        (models[i].base = NoBase /\ models[i].config = <<>>) =>
            /\ out.blocks[i][1] = <<"class ", models[i].name, "(", "BaseModel", "):">>
            /\ \A l \in DOMAIN out.blocks[i] :
                 out.blocks[i][l][1] # "    model_config = ConfigDict("
            /\ ImportsFromPydantic("BaseModel")

\* C9 as claimed: ... and ConfigDict is imported from pydantic exactly when
\* some rendered model has a non-empty configuration.
C9_ConfigDictImportedIffConfigured ==
    Rendered => (DefaultBaseRendered /\ (ImportsFromPydantic("ConfigDict") <=> SomeConfig))

\* C9 as amended: a descriptor with no base and an empty configuration renders
\* "class <name>(BaseModel):" with no model_config line and BaseModel
\* imported from pydantic; ConfigDict is imported from pydantic exactly when
\* some rendered model has a non-empty configuration or some base or field
\* type is itself ConfigDict of pydantic.
C9_DefaultBaseAndConfigImport ==
    Rendered =>
        /\ DefaultBaseRendered
        /\ ImportsFromPydantic("ConfigDict") <=>
               (\/ SomeConfig
                \/ [module |-> "pydantic", item |-> [name |-> "ConfigDict", alias |-> Absent]]
                       \in Range(References))

\* C9 witness: a model with no base and no configuration rendered next to a
\* configured model with an explicit base.
C9_Witness ==
    /\ Rendered
    /\ \E i, j \in DOMAIN models :
         /\ models[i].base = NoBase /\ models[i].config = <<>> /\ models[i].fields # <<>>
         /\ models[j].base # NoBase /\ models[j].config # <<>>
    /\ ImportsFromPydantic("ConfigDict")

(***************************************************************************)
(* olivier.py:139-197  detect_typeinfo                                     *)
(***************************************************************************)
Class(name, module) == Ann("class", name, module, FALSE, <<>>)
\* A class with __annotations__, such as a TypedDict.
AnnotatedClass(name, module) == Ann("class", name, module, TRUE, <<>>)
NoneType == Ann("NoneType", "NoneType", "builtins", FALSE, <<>>)
Mapped(t) == Ann("Mapped", Absent, Absent, FALSE, <<t>>)
ListOf(t) == Ann("list", Absent, Absent, FALSE, <<t>>)
DictOf(k, v) == Ann("dict", Absent, Absent, FALSE, <<k, v>>)
\* Union[...] or X | Y: typing flattens nested unions and drops repeated
\* alternatives, so args are distinct and none of them is a union.
UnionOf(args) == Ann("Union", Absent, Absent, FALSE, args)
\* A type object that is none of the above, such as typing.Any.
OtherType(text) == Ann("other", text, Absent, FALSE, <<>>)

Builtin(module) == module \in {"builtins", "__builtin__"}

\* A union is refused only from three alternatives on.
TooManyAlternativesLax(non_none_args) == Len(non_none_args) > 2

\* olivier.py:154
TooManyAlternatives(non_none_args) == Len(non_none_args) > 1

RECURSIVE detect_typeinfo(_)
detect_typeinfo(t) ==
    IF t.kind = "Mapped" THEN detect_typeinfo(t.args[1])
    ELSE IF t.kind = "Union"
    THEN LET non_none_args == SelectSeq(t.args, LAMBDA a : a # NoneType)
             optional == NoneType \in Range(t.args)
         IN  IF TooManyAlternatives(non_none_args) THEN Raised("NotImplementedError")
             ELSE LET r == detect_typeinfo(non_none_args[1])
                  IN  IF r.err # Absent THEN r
                      ELSE IF optional THEN Returned([r.value EXCEPT !.optional = TRUE])
                      ELSE r
    ELSE IF t = NoneType THEN Returned(TypeInfo("None", Absent, Absent, FALSE, FALSE))
    ELSE IF t.kind = "list"
    THEN LET r == detect_typeinfo(t.args[1])
         IN  IF r.err # Absent THEN r ELSE Returned([r.value EXCEPT !.list = TRUE])
    ELSE IF t.annotations
    THEN IF Builtin(t.module) THEN Returned(TypeInfo(t.name, Absent, Absent, FALSE, FALSE))
         ELSE Returned(TypeInfo(t.name, t.module, Absent, FALSE, FALSE))
    ELSE IF t.kind = "dict" THEN Returned(TypeInfo("dict", Absent, Absent, FALSE, FALSE))
    ELSE IF t.kind = "class"
    THEN IF Builtin(t.module) THEN Returned(TypeInfo(t.name, Absent, Absent, FALSE, FALSE))
         ELSE IF t.name = "UUID" /\ t.module = "uuid"
         THEN Returned(TypeInfo("UUID", "uuid", Absent, FALSE, FALSE))
         ELSE IF t.module = "datetime"
         THEN Returned(TypeInfo(t.name, "datetime", Absent, FALSE, FALSE))
         ELSE Returned(TypeInfo(t.name, t.module, Absent, FALSE, FALSE))
    ELSE Returned(TypeInfo(t.name, Absent, Absent, FALSE, FALSE))

(***************************************************************************)
(* olivier.py:200-232  sqlalchemy_model_to_pydantic_model_definition       *)
(*                                                                         *)
(* A mapped class is what the function reads of it: how it is named (the   *)
(* name argument and the __pydantic_model__ attribute), mapper.columns     *)
(* (name, the entry of get_type_hints under that name, col.type.python_type *)
(* and nullable) and mapper.relationships (key, target class, uselist).    *)
(***************************************************************************)
Column(name, hint, python_type, nullable) ==
    [name |-> name, hint |-> hint, python_type |-> python_type, nullable |-> nullable]

\* target: the target class's __name__; model: its __pydantic_model__, if any.
Relationship(key, target, model, uselist) ==
    [key |-> key, target |-> target, model |-> model, uselist |-> uselist]

\* name: the argument (Absent for None); attr: "str" with the value in
\* value, "other" for a value that is no str, "missing" for no attribute.
Naming(name, attr, value) == [name |-> name, attr |-> attr, value |-> value]

RECURSIVE ColumnFields(_, _, _)
\* olivier.py:213-217  the loop over mapper.columns from column i on.
ColumnFields(columns, i, fields) ==
    IF i > Len(columns) THEN Returned(fields)
    ELSE LET col == columns[i]
             r == detect_typeinfo(IF col.hint # NoAnn THEN col.hint ELSE col.python_type)
         IN  IF r.err # Absent THEN r
             ELSE LET t == IF col.nullable THEN [r.value EXCEPT !.optional = TRUE] ELSE r.value
                  IN  ColumnFields(columns, i + 1, Append(fields, Field(col.name, t, Absent)))

\* olivier.py:219-226
RelationshipFields(relationships) ==
    [i \in DOMAIN relationships |->
        LET rel == relationships[i]
        IN  Field(rel.key,
                  TypeInfo(IF rel.model # Absent THEN rel.model ELSE rel.target,
                           Absent, Absent, rel.uselist, TRUE),
                  "None")]

sqlalchemy_model_to_pydantic_model_definition(c) ==
    IF c.naming.name = Absent /\ c.naming.attr = "missing" THEN Raised("AttributeError")
    ELSE IF c.naming.name = Absent /\ c.naming.attr # "str" THEN Raised("ValueError")
    ELSE LET name == IF c.naming.name # Absent THEN c.naming.name ELSE c.naming.value
             cols == ColumnFields(c.columns, 1, <<>>)
         IN  IF cols.err # Absent THEN cols
             ELSE Returned([name |-> name,
                            fields |-> cols.value \o RelationshipFields(c.relationships),
                            config |-> <<[key |-> "extra", value |-> "forbid", isStr |-> TRUE]>>])

(***************************************************************************)
(* The callers of detect_typeinfo and of the conversion: a type object or  *)
(* a mapped class is given and the function is called on it.               *)
(***************************************************************************)
IntType == Class("int", "builtins")
StrType == Class("str", "builtins")

\* Unions of int, str and None: two or three distinct alternatives in any order.
ScalarUnions ==
    {UnionOf(a) : a \in {s \in UNION {[1 .. n -> {IntType, StrType, NoneType}] : n \in 2 .. 3} :
                            \A i, j \in DOMAIN s : i # j => s[i] # s[j]}}

PlainTypes ==
    {IntType, StrType, NoneType, Class("UUID", "uuid"), Class("datetime", "datetime"),
     AnnotatedClass("UserMeta", "models"), OtherType("typing.Any"),
     DictOf(StrType, UnionOf(<<IntType, StrType>>))}

ListTypes == {ListOf(t) : t \in PlainTypes \cup ScalarUnions}

ListUnions ==
    UNION {{UnionOf(<<l, NoneType>>), UnionOf(<<NoneType, l>>), UnionOf(<<l, IntType>>)} :
           l \in {ListOf(IntType), ListOf(UnionOf(<<IntType, NoneType>>)),
                   ListOf(UnionOf(<<IntType, StrType>>))}}

\* The type objects detect_typeinfo is called on.
TypeObjects ==
    LET top == PlainTypes \cup ScalarUnions \cup ListTypes \cup ListUnions
    IN  top \cup {Mapped(t) : t \in top}

\* The annotations of the columns converted; NoAnn: the column has no type hint.
ColumnHints ==
    {NoAnn,
     Mapped(IntType),
     Mapped(Class("UUID", "uuid")),
     Mapped(UnionOf(<<IntType, NoneType>>)),
     Mapped(UnionOf(<<IntType, StrType>>)),
     Mapped(UnionOf(<<IntType, StrType, NoneType>>)),
     Mapped(ListOf(UnionOf(<<IntType, NoneType>>))),
     Mapped(ListOf(UnionOf(<<IntType, StrType>>))),
     Mapped(UnionOf(<<ListOf(IntType), NoneType>>))}

ColumnNames == <<"c1", "c2", "c3", "c4">>

ColumnLists ==
    UNION {{[i \in 1 .. n |-> Column(ColumnNames[i], hs[i], StrType, ns[i])] :
              hs \in [1 .. n -> ColumnHints], ns \in [1 .. n -> BOOLEAN]} :
           n \in 0 .. MaxColumns}

RelationshipLists ==
    {<<>>,
     <<Relationship("comments", "CommentTable", Absent, TRUE)>>,
     <<Relationship("author", "UserTable", "User", FALSE),
       Relationship("comments", "CommentTable", Absent, TRUE)>>}

Namings ==
    {Naming(Absent, "str", "Article"), Naming("Custom", "missing", Absent),
     Naming(Absent, "missing", Absent), Naming(Absent, "other", Absent)}

InitDetect ==
    /\ \/ ann \in TypeObjects /\ cls = NoClass
       \/ /\ ann = NoAnn
          /\ \E n \in Namings, cs \in ColumnLists, rs \in RelationshipLists :
                cls = [naming |-> n, columns |-> cs, relationships |-> rs]
    /\ info = Raised("<not called>")
    /\ conv = Raised("<not called>")
    /\ lastOp = "init"
    /\ PartialIdle /\ BuildIdle /\ RuffIdle

\* info = detect_typeinfo(ann)
CallDetect ==
    /\ lastOp = "init" /\ ann # NoAnn
    /\ info' = detect_typeinfo(ann)
    /\ lastOp' = "detect"
    /\ UNCHANGED <<ann, cls, conv, partialVars, buildVars, ruff>>

\* conv = sqlalchemy_model_to_pydantic_model_definition(cls, name)
CallConvert ==
    /\ lastOp = "init" /\ cls # NoClass
    /\ conv' = sqlalchemy_model_to_pydantic_model_definition(cls)
    /\ lastOp' = "convert"
    /\ UNCHANGED <<ann, cls, info, partialVars, buildVars, ruff>>

NextDetect == CallDetect \/ CallConvert

SpecDetect == InitDetect /\ [][NextDetect]_vars

(***************************************************************************)
(* Claims about detect_typeinfo and the conversion.                        *)
(***************************************************************************)
NonNone(t) == SelectSeq(t.args, LAMBDA a : a # NoneType)

RECURSIVE HasWideUnion(_)
\* The annotation is, or holds under Mapped, Optional or list wrappers, a
\* union with more than one alternative other than None.
HasWideUnion(t) ==
    CASE t.kind \in {"Mapped", "list"} -> HasWideUnion(t.args[1])
      [] t.kind = "Union" ->
            \/ Len(NonNone(t)) > 1
            \/ Len(NonNone(t)) = 1 /\ HasWideUnion(NonNone(t)[1])
      [] OTHER -> FALSE

NamingFails(c) == c.naming.name = Absent /\ c.naming.attr # "str"

\* C7: detect_typeinfo raises NotImplementedError for every annotation that
\* is or wraps (in Mapped, Optional, list) a union of more than one
\* alternative other than None, with or without None; the conversion of a
\* class with such a column annotation returns no descriptor, wherever the
\* column stands: it raises, NotImplementedError unless naming failed first.
C7_WideUnionsFail ==
    /\ (lastOp = "detect" /\ HasWideUnion(ann)) => info.err = "NotImplementedError"
    /\ (lastOp = "convert" /\ \E i \in DOMAIN cls.columns : HasWideUnion(cls.columns[i].hint)) =>
          /\ conv.err # Absent
          /\ ~NamingFails(cls) => conv.err = "NotImplementedError"

\* C7 witness: a conversion in which the column with the wide union (inside
\* a list, without None) comes after a column that converts.
C7_Witness ==
    /\ lastOp = "convert"
    /\ ~NamingFails(cls)
    /\ Len(cls.columns) = 2
    /\ ~HasWideUnion(cls.columns[1].hint)
    /\ cls.columns[2].hint = Mapped(ListOf(UnionOf(<<IntType, StrType>>)))
    /\ conv.err = "NotImplementedError"

\* The annotation is, under Mapped, a union that has None among its alternatives.
IsUnionWithNone(t) ==
    LET u == IF t.kind = "Mapped" THEN t.args[1] ELSE t
    IN  u.kind = "Union" /\ NoneType \in Range(u.args)

\* C8: in the descriptor the conversion returns, the fields of the columns
\* come first, in column order and without default; the field of a nullable
\* column is optional; the field of a non-nullable column is optional only if
\* its annotation is a union with None; then come the fields of the
\* relationships, and a list-valued relationship gives a field that is a
\* list, optional and has the default None.
C8_NullableAndRelationshipFields ==
    (lastOp = "convert" /\ conv.err = Absent) =>
        LET fs == conv.value.fields
            n == Len(cls.columns)
        IN  /\ Len(fs) = n + Len(cls.relationships)
            /\ \A i \in DOMAIN cls.columns :
                 /\ fs[i].name = cls.columns[i].name
                 /\ fs[i].default = Absent
                 /\ cls.columns[i].nullable => fs[i].type.optional
                 /\ (~cls.columns[i].nullable /\ fs[i].type.optional) =>
                        IsUnionWithNone(cls.columns[i].hint)
            /\ \A j \in DOMAIN cls.relationships :
                 /\ fs[n + j].name = cls.relationships[j].key
                 /\ cls.relationships[j].uselist =>
                        (fs[n + j].type.list /\ fs[n + j].type.optional /\ fs[n + j].default = "None")

(***************************************************************************)
(* utils.py:9-35  ruff_format                                              *)
(*                                                                         *)
(* subprocess.run blocks until the ruff process it started exits, so the   *)
(* function is cut where it waits: an action runs the code up to the start *)
(* of a subprocess, the next one takes the exit of that subprocess and     *)
(* runs on.  What ruff writes is not this repository's code: the fixed     *)
(* file, the formatted text and the exit status are any of a few values.   *)
(***************************************************************************)
Codes == {"import b\nimport a\nx=1", "import a\nimport b\nx=1", "import a\nimport b\nx = 1\n"}
ExitCodes == {0, 1, 2}
LineLengths == {Absent, "88"}
TempFile == "/tmp/tmpfile.py"
Running == -1

\* utils.py:23-25
CheckCommand(ruff_command) ==
    <<ruff_command, "check", "--isolated", "--fix", "--select", "I", TempFile>>

\* utils.py:30-33
FormatCommand(ruff_command, line_length) ==
    <<ruff_command, "format", "--isolated">>
        \o (IF line_length # Absent THEN <<"--line-length", line_length>> ELSE <<>>)
        \o <<"-">>

\* subprocess.run without check=True: no exit status raises.
FailedNever(rc) == FALSE

\* utils.py:16  check=True: a non-zero exit status raises CalledProcessError.
Failed(rc) == rc # 0

\* subprocess.run(cmd, ...) up to the start of the process.
Started(cmd, input) == [cmd |-> cmd, input |-> input, rc |-> Running]

InitRuff ==
    /\ \E code \in Codes, isort \in BOOLEAN, line_length \in LineLengths :
         ruff = [pc |-> "called", arg |-> code, isort |-> isort, line_length |-> line_length,
                 code |-> code, file |-> Absent, calls |-> <<>>, ret |-> Absent, exc |-> Absent]
    /\ lastOp = "init"
    /\ PartialIdle /\ BuildIdle /\ DetectIdle

\* utils.py:33  the format pass is started on the current value of code.
StartFormat(r) ==
    [r EXCEPT !.pc = "format",
              !.calls = Append(@, Started(FormatCommand("ruff", r.line_length), r.code))]

\* utils.py:16-25, or 16-19 and 30-33: from the call to the first subprocess.
Enter ==
    /\ ruff.pc = "called"
    /\ ruff' = IF ruff.isort
               THEN [ruff EXCEPT !.pc = "check", !.file = ruff.code,
                                 !.calls = Append(@, Started(CheckCommand("ruff"), Absent))]
               ELSE StartFormat(ruff)
    /\ lastOp' = "enter"
    /\ UNCHANGED <<partialVars, buildVars, detectVars>>

\* utils.py:25-33  ruff check exits; on success the file is read back and
\* the format pass is started.
CheckExit ==
    /\ ruff.pc = "check"
    /\ \E rc \in ExitCodes, fixed \in Codes :
         LET done == [ruff EXCEPT !.calls[Len(ruff.calls)].rc = rc, !.file = fixed]
         IN  ruff' = IF Failed(rc)
                     THEN [done EXCEPT !.pc = "raised", !.exc = "CalledProcessError"]
                     ELSE StartFormat([done EXCEPT !.code = fixed])
    /\ lastOp' = "check_exit"
    /\ UNCHANGED <<partialVars, buildVars, detectVars>>

\* utils.py:33-35  ruff format exits; on success its stdout is returned.
FormatExit ==
    /\ ruff.pc = "format"
    /\ \E rc \in ExitCodes, stdout \in Codes :
         LET done == [ruff EXCEPT !.calls[Len(ruff.calls)].rc = rc]
         IN  ruff' = IF Failed(rc)
                     THEN [done EXCEPT !.pc = "raised", !.exc = "CalledProcessError"]
                     ELSE [done EXCEPT !.pc = "returned", !.code = stdout, !.ret = stdout]
    /\ lastOp' = "format_exit"
    /\ UNCHANGED <<partialVars, buildVars, detectVars>>

NextRuff == Enter \/ CheckExit \/ FormatExit

SpecRuff == InitRuff /\ [][NextRuff]_vars

(***************************************************************************)
(* Claims about ruff_format.                                               *)
(***************************************************************************)
IsCheck(c) == c.cmd[2] = "check"
IsFormat(c) == c.cmd[2] = "format"

\* A non-zero exit ends the run with the exception: nothing is started after
\* it and nothing is returned; a run that returned saw only zero exits.
FailureAborts ==
    /\ \A i \in DOMAIN ruff.calls :
         ruff.calls[i].rc \notin {Running, 0} =>
            (i = Len(ruff.calls) /\ ruff.pc = "raised")
    /\ ruff.pc = "raised" =>
          (ruff.ret = Absent /\ ruff.exc = "CalledProcessError"
             /\ ruff.calls[Len(ruff.calls)].rc \notin {Running, 0})
    /\ ruff.pc = "returned" =>
          (ruff.ret # Absent /\ \A i \in DOMAIN ruff.calls : ruff.calls[i].rc = 0)

\* The import-sort pass, then the format pass on the text read back from the
\* file the import-sort pass fixed.
CheckThenFormat ==
    /\ Len(ruff.calls) <= 2
    /\ ruff.pc # "called" => (ruff.calls # <<>> /\ IsCheck(ruff.calls[1]))
    /\ Len(ruff.calls) = 2 =>
          (/\ IsFormat(ruff.calls[2])
           /\ ruff.calls[1].rc = 0
           /\ ruff.calls[2].input = ruff.file)
    /\ ruff.pc = "returned" => Len(ruff.calls) = 2

\* C10 as claimed: every run makes the two subprocess calls in this order,
\* and a non-zero exit of either aborts the run.
C10_TwoPassesInOrder == CheckThenFormat /\ FailureAborts

\* C10 as amended: with isort true (the default) the import-sort pass runs
\* first and the format pass runs on the import-sorted text; with isort false
\* the format pass alone runs, on the text given; in both cases a non-zero
\* exit raises and aborts the run with no retry: after a failed import-sort
\* pass the format pass is never started and a failing run returns no text.
C10_PassesInOrderAndFailureAborts ==
    /\ ruff.isort => CheckThenFormat
    /\ ~ruff.isort =>
          /\ Len(ruff.calls) <= 1
          /\ ruff.pc # "called" =>
                (ruff.calls # <<>> /\ IsFormat(ruff.calls[1]) /\ ruff.calls[1].input = ruff.arg)
    /\ FailureAborts

\* C10 witness: the import-sort pass rewrote the text and exited with 0, the
\* format pass ran on the rewritten text and failed, and the run raised.
C10_Witness ==
    /\ ruff.pc = "raised"
    /\ ruff.isort
    /\ Len(ruff.calls) = 2
    /\ ruff.calls[2].input # ruff.arg
    /\ ruff.calls[2].rc = 1

====
